---------------------------- MODULE Spec2Model ----------------------------
(***************************************************************************)
(* Model of movie_rater.py: a Streamlit script that loads movie rows from  *)
(* a Google sheet, shows a pair of movies, applies an Elo update to every  *)
(* row sharing the voted titles, writes the new ratings back cell by cell, *)
(* and renders a leaderboard and the top movie of each genre.              *)
(*                                                                         *)
(* Strings are sequences of code points, so that strip(), lower(),         *)
(* split(",") and substring matching are computed as Python computes them. *)
(***************************************************************************)
EXTENDS Integers, Sequences, FiniteSets, TLC

VARIABLES
    \* ---- the session (script runs, lines 7-150) ----
    store,          \* the worksheet's data rows (below the header), in sheet order
    df_movies,      \* the DataFrame of the current script run (line 47)
    movie_pair,     \* st.session_state.movie_pair: None or <<movie1, movie2>>
    pc,             \* where the session stands between script runs
    report,         \* "success" / "error": what the last vote run reported
    vote,           \* the (winner, loser) tuple the last vote run processed (line 122)
    before,         \* df_movies of the last vote run as loaded, before lines 126-127
    writes,         \* the update_cell calls of the last vote run, in order
    raised,         \* which of them raised (0: none)
    votes,          \* number of votes processed
    voted,          \* normalized titles that were winner or loser of some vote
    anyFail,        \* some update_cell call has raised so far
    \* ---- sample_movie_pair, statement by statement (lines 64-73) ----
    attempt,        \* number of df.sample(2) calls made so far
    draw,           \* the pair of row positions the last loop iteration drew
    result,         \* the pair of row positions returned
    \* ---- update_elo (lines 114-118) ----
    elo_in,         \* <<winner_elo, loser_elo>>
    elo_out,        \* <<new_winner_elo, new_loser_elo>>
    \* ---- leaderboard and top movies (lines 152-197) ----
    selected_genre, \* the selectbox value
    leaderboard_df, \* the rows of leaderboard_df, in display order
    top_movies      \* the list get_top_movies_by_genre returns

sessionVars ==
    <<store, movie_pair, report, vote, before, writes, raised, votes, voted, anyFail>>
samplerVars == <<attempt, draw, result>>
eloVars     == <<elo_in, elo_out>>
boardVars   == <<selected_genre, leaderboard_df, top_movies>>
vars == <<df_movies, pc, sessionVars, samplerVars, eloVars, boardVars>>

None == <<>>

-----------------------------------------------------------------------------
(* Python str operations on sequences of code points.                      *)

Min(S) == CHOOSE x \in S : \A y \in S : x <= y
Max(S) == CHOOSE x \in S : \A y \in S : x >= y

IsSpace(c) == c \in {9, 10, 11, 12, 13, 32}

LowerChar(c) == IF c \in 65..90 THEN c + 32 ELSE c

\* str.lower()
Lower(s) == [i \in 1..Len(s) |-> LowerChar(s[i])]

\* str.strip()
Strip(s) ==
    LET keep == {i \in 1..Len(s) : ~IsSpace(s[i])}
    IN  IF keep = {} THEN <<>> ELSE SubSeq(s, Min(keep), Max(keep))

Comma == 44

\* str.split(","): "" gives [""], "a," gives ["a", ""]
RECURSIVE Split(_)
Split(s) ==
    LET at == {i \in 1..Len(s) : s[i] = Comma}
    IN  IF at = {} THEN <<s>>
        ELSE <<SubSeq(s, 1, Min(at) - 1)>> \o Split(SubSeq(s, Min(at) + 1, Len(s)))

Range(f) == {f[i] : i \in DOMAIN f}

\* Python's < on str: lexicographic by code point
StrLess(a, b) ==
    \E k \in 1..(Len(b)) :
        /\ \A i \in 1..(k - 1) : i <= Len(a) /\ a[i] = b[i]
        /\ \/ Len(a) = k - 1
           \/ Len(a) >= k /\ a[k] < b[k]

\* sorted(S) for a set of strings
RECURSIVE Sorted(_)
Sorted(S) ==
    IF S = {} THEN <<>>
    ELSE LET m == CHOOSE x \in S : \A y \in S \ {x} : StrLess(x, y)
         IN  <<m>> \o Sorted(S \ {m})

\* Series.str.contains(g, case=False) for a pattern without regex metacharacters
Contains(hay, needle) ==
    LET h == Lower(hay)
        n == Lower(needle)
    IN  \E i \in 0..(Len(h) - Len(n)) : SubSeq(h, i + 1, i + Len(n)) = n

-----------------------------------------------------------------------------
(* load_movies, get_genre_set, update_elo                                  *)

DefaultElo == 1500

\* pd.to_numeric(..., errors="coerce").fillna(1500).astype(int) on one cell
ToNumeric(cell) == IF cell.kind = "num" THEN cell.val ELSE DefaultElo

Num(n) == [kind |-> "num", val |-> n]
Text == [kind |-> "text", val |-> 0]

\* load_movies: an empty sheet gives the empty frame; otherwise Title and
\* genres are stripped and elo is made an integer.
load_movies(sheet) ==
    [i \in 1..Len(sheet) |->
        [Title  |-> Strip(sheet[i].Title),
         genres |-> Strip(sheet[i].genres),
         elo    |-> ToNumeric(sheet[i].elo)]]

get_genre_set(genres_str) ==
    {Lower(Strip(p)) : p \in {q \in Range(Split(genres_str)) : Strip(q) # <<>>}}

K == 32

\* EloThreshold[n] is the largest winner_elo - loser_elo for which
\* round(k * (1 - expected_win)) >= n, that is
\* floor(400 * log10((2k + 1 - 2n) / (2n - 1))): the function of lines 115-118
\* tabulated, as 10 ** (d / 400) is not an integer computation.
EloThreshold ==
    <<719, 523, 428, 364, 314, 273, 237, 205, 176, 149, 124, 100, 77, 54, 32, 10,
      -11, -33, -55, -78, -101, -125, -150, -177, -206, -238, -274, -315, -365,
      -429, -524, -720>>

\* round(k * (1 - expected_win)) as a function of winner_elo - loser_elo
Gain(d) == Cardinality({n \in 1..K : d <= EloThreshold[n]})

\* update_elo with the exponent's sign flipped: (winner_elo - loser_elo) / 400
update_elo_Flipped(winner_elo, loser_elo) ==
    <<winner_elo + Gain(loser_elo - winner_elo),
      loser_elo - Gain(loser_elo - winner_elo)>>

update_elo(winner_elo, loser_elo) ==
    <<winner_elo + Gain(winner_elo - loser_elo),
      loser_elo - Gain(winner_elo - loser_elo)>>

-----------------------------------------------------------------------------
(* Bounds and the rows the model draws sheets from.                        *)

MaxRows == 3        \* sheets hold at most this many data rows
MaxVotes == 1       \* votes processed in one behaviour

\* "Up", " up", "Heat", "Ran"
T_Up == <<85, 112>>
T_up == <<32, 117, 112>>
T_Heat == <<72, 101, 97, 116>>
T_Ran == <<82, 97, 110>>
\* "War", "Art "
G_War == <<87, 97, 114>>
G_Art == <<65, 114, 116, 32>>

\* A sheet in which " up" is a second viewing of "Up" stored with another
\* case, padding, genre and rating, and "Heat" has a non-numeric elo cell.
ReferenceSheet ==
    << [Title |-> T_Up,   genres |-> G_War, elo |-> Num(1500)],
       [Title |-> T_Heat, genres |-> G_War, elo |-> Text],
       [Title |-> T_up,   genres |-> G_Art, elo |-> Num(1600)],
       [Title |-> T_Ran,  genres |-> G_Art, elo |-> Num(1400)] >>

\* the rows of s at the positions in S, in the order of s
RECURSIVE SelectRows(_, _)
SelectRows(s, S) ==
    IF S = {} THEN <<>>
    ELSE <<s[Min(S)]>> \o SelectRows(s, S \ {Min(S)})

Reverse(s) == [i \in 1..Len(s) |-> s[Len(s) + 1 - i]]

SubSheets(s, n) == {SelectRows(s, S) : S \in {X \in SUBSET DOMAIN s : Cardinality(X) <= n}}

\* the sheets the session starts from: at most MaxRows rows of the reference
\* sheet, top-down or bottom-up
Sheets == SubSheets(ReferenceSheet, MaxRows) \cup SubSheets(Reverse(ReferenceSheet), MaxRows)

-----------------------------------------------------------------------------
(* The session: one action per script run.                                 *)

\* df.sample(2).reset_index(drop=True): two rows at distinct positions
Sample2(df) ==
    {<<df[p[1]], df[p[2]]>> : p \in {q \in (DOMAIN df) \X (DOMAIN df) : q[1] # q[2]}}

\* Intersects with | for &: any genre at all on either side passes
Intersects_Union(a, b) == get_genre_set(a.genres) \cup get_genre_set(b.genres) # {}

\* line 70: g1 & g2
Intersects(a, b) == get_genre_set(a.genres) \cap get_genre_set(b.genres) # {}

\* What sample_movie_pair(df) can return: a drawn pair whose genre sets
\* intersect is returned from the loop, and any drawn pair comes back from
\* the fallback once 50 draws were disjoint (SpecSampler runs the loop
\* statement by statement).
sample_movie_pair(df) ==
    {p \in Sample2(df) : Intersects(p[1], p[2])}
        \cup (IF \E p \in Sample2(df) : ~Intersects(p[1], p[2]) THEN Sample2(df) ELSE {})

\* SetElo comparing titles without lower(): rows stored in another case are missed
SetElo_CaseSensitive(df, title, value) ==
    [i \in DOMAIN df |->
        IF df[i].Title = title THEN [df[i] EXCEPT !.elo = value] ELSE df[i]]

\* SetElo without the row mask: every row is assigned
SetElo_Unmasked(df, title, value) ==
    [i \in DOMAIN df |-> [df[i] EXCEPT !.elo = value]]

\* df_movies.loc[df_movies["Title"].str.lower() == title.lower(), "elo"] = value
SetElo(df, title, value) ==
    [i \in DOMAIN df |->
        IF Lower(df[i].Title) = Lower(title) THEN [df[i] EXCEPT !.elo = value] ELSE df[i]]

\* lines 126-127: the winner's rows first, then the loser's
ApplyVote(df, winner, loser, new) ==
    SetElo(SetElo(df, winner.Title, new[1]), loser.Title, new[2])

\* lines 136-141: the update_cell calls of the loop over the sheet's rows, in order
RECURSIVE CellUpdates(_, _, _, _, _)
CellUpdates(sheet, i, winner, loser, new) ==
    IF i > Len(sheet) THEN <<>>
    ELSE LET row_title == Lower(Strip(sheet[i].Title))
             w == IF row_title = Lower(Strip(winner.Title))
                  THEN <<[row |-> i, val |-> new[1]]>> ELSE <<>>
             l == IF row_title = Lower(Strip(loser.Title))
                  THEN <<[row |-> i, val |-> new[2]]>> ELSE <<>>
         IN  w \o l \o CellUpdates(sheet, i + 1, winner, loser, new)

\* The calls made when the f-th one raises (f = 0: none raises): the loop
\* sits inside the try, so the first exception ends it.
Issued(calls, f) == IF f = 0 THEN calls ELSE SubSeq(calls, 1, f)

\* worksheet.update_cell for the calls that returned
RECURSIVE WriteCells(_, _)
WriteCells(sheet, done) ==
    IF done = <<>> THEN sheet
    ELSE WriteCells([sheet EXCEPT ![Head(done).row].elo = Num(Head(done).val)], Tail(done))

\* Reported with the exception swallowed: success whatever happened
Reported_Swallowed(f) == "success"

\* st.success at line 143 is reached only when no call raised; st.error otherwise
Reported(f) == IF f = 0 THEN "success" ELSE "error"

NormTitle(t) == Lower(Strip(t))

\* the values of the variables a specification does not use
SamplerUnused == attempt = 0 /\ draw = None /\ result = None
EloUnused == elo_in = None /\ elo_out = None
BoardUnused == selected_genre = None /\ leaderboard_df = <<>> /\ top_movies = <<>>
SessionUnused ==
    /\ movie_pair = None /\ report = "none" /\ vote = None /\ before = <<>>
    /\ writes = <<>> /\ raised = 0 /\ votes = 0 /\ voted = {} /\ anyFail = FALSE

Init ==
    /\ store \in Sheets
    /\ df_movies = <<>>
    /\ movie_pair = None
    /\ pc = "start"
    /\ report = "none"
    /\ vote = None
    /\ before = <<>>
    /\ writes = <<>>
    /\ raised = 0
    /\ votes = 0
    /\ voted = {}
    /\ anyFail = FALSE
    /\ SamplerUnused
    /\ EloUnused
    /\ BoardUnused

Rerunning == pc \in {"start", "voted", "skipped"}

\* First run of a session: load, then line 81 samples the first pair.
RunFirst ==
    /\ Rerunning
    /\ movie_pair = None
    /\ Len(store) >= 2
    /\ df_movies' = load_movies(store)
    /\ movie_pair' \in sample_movie_pair(load_movies(store))
    /\ pc' = "idle"
    /\ UNCHANGED <<store, report, vote, before, writes, raised, votes, voted, anyFail>>
    /\ UNCHANGED <<samplerVars, eloVars, boardVars>>

\* First run on a sheet of fewer than two rows: line 81 calls
\* sample_movie_pair, whose df.sample(2) raises ValueError; the run ends there.
RunCrash ==
    /\ Rerunning
    /\ movie_pair = None
    /\ Len(store) < 2
    /\ df_movies' = load_movies(store)
    /\ pc' = "crashed"
    /\ UNCHANGED <<sessionVars, samplerVars, eloVars, boardVars>>

\* The run st.rerun() starts: load again, keep the pair of the session.
Rerun ==
    /\ Rerunning
    /\ movie_pair # None
    /\ df_movies' = load_movies(store)
    /\ pc' = "idle"
    /\ UNCHANGED <<sessionVars, samplerVars, eloVars, boardVars>>

\* A click on one of the two vote buttons: the run loads, sets the vote
\* (lines 100-106), processes it (lines 121-150) and calls st.rerun().
ClickVote(b) ==
    /\ pc = "idle"
    /\ votes < MaxVotes
    /\ LET df     == load_movies(store)
           winner == IF b = 1 THEN movie_pair[1] ELSE movie_pair[2]
           loser  == IF b = 1 THEN movie_pair[2] ELSE movie_pair[1]
           new    == update_elo(winner.elo, loser.elo)
           df2    == ApplyVote(df, winner, loser, new)
           calls  == CellUpdates(store, 1, winner, loser, new)
       IN  \E f \in 0..Len(calls) :
           /\ before' = df
           /\ vote' = <<winner, loser>>
           /\ df_movies' = df2
           /\ writes' = Issued(calls, f)
           /\ raised' = f
           /\ store' = WriteCells(store, IF f = 0 THEN calls ELSE SubSeq(calls, 1, f - 1))
           /\ report' = Reported(f)
           /\ anyFail' = (anyFail \/ f # 0)
           /\ voted' = voted \cup {NormTitle(winner.Title), NormTitle(loser.Title)}
           /\ movie_pair' \in sample_movie_pair(df2)
    /\ votes' = votes + 1
    /\ pc' = "voted"
    /\ UNCHANGED <<samplerVars, eloVars, boardVars>>

\* A click on "Skip this pair" (lines 109-111)
ClickSkip ==
    /\ pc = "idle"
    /\ df_movies' = load_movies(store)
    /\ movie_pair' \in sample_movie_pair(load_movies(store))
    /\ pc' = "skipped"
    /\ UNCHANGED <<store, report, vote, before, writes, raised, votes, voted, anyFail>>
    /\ UNCHANGED <<samplerVars, eloVars, boardVars>>

Next ==
    \/ RunFirst
    \/ RunCrash
    \/ Rerun
    \/ \E b \in {1, 2} : ClickVote(b)
    \/ ClickSkip

Spec == Init /\ [][Next]_vars

-----------------------------------------------------------------------------
(* Claims about the vote (C1-C4), checked under Spec.                      *)

Rows(df, T) == {i \in DOMAIN df : NormTitle(df[i].Title) = T}

Uniform(df, T) == \A i, j \in Rows(df, T) : df[i].elo = df[j].elo

VoteTitles == {NormTitle(vote[1].Title), NormTitle(vote[2].Title)}

C2_VoteFrame ==
    pc = "voted" =>
        /\ Len(df_movies) = Len(before)
        /\ \A i \in DOMAIN before :
            /\ df_movies[i].Title = before[i].Title
            /\ df_movies[i].genres = before[i].genres
            /\ NormTitle(before[i].Title) \notin VoteTitles => df_movies[i].elo = before[i].elo

\* a vote between two different titles changed a rating while a record of a
\* third title was in the collection
C2_Witness ==
    /\ pc = "voted"
    /\ Cardinality(VoteTitles) = 2
    /\ \E i \in DOMAIN before : NormTitle(before[i].Title) \notin VoteTitles
    /\ \E i \in DOMAIN before : df_movies[i].elo # before[i].elo

\* C3: once a vote is applied, every record with the winner's title carries
\* the new winner rating and every record with the loser's title the new
\* loser rating, both computed by update_elo from the ratings of the two
\* sides, for every pair the sampler can return.
C3_BothSidesCarryNewRatings ==
    pc = "voted" =>
        LET new == update_elo(vote[1].elo, vote[2].elo)
        IN  /\ \A i \in Rows(df_movies, NormTitle(vote[1].Title)) : df_movies[i].elo = new[1]
            /\ \A i \in Rows(df_movies, NormTitle(vote[2].Title)) : df_movies[i].elo = new[2]

\* the state a vote run leaves when its call number `raised` raised
C4_StateAfterFailure ==
    pc = "voted" /\ raised # 0 =>
        LET new == update_elo(vote[1].elo, vote[2].elo)
        IN  /\ report = "error"
            /\ \A i \in Rows(df_movies, NormTitle(vote[2].Title)) : df_movies[i].elo = new[2]
            /\ \A i \in Rows(df_movies, NormTitle(vote[1].Title)) \ Rows(df_movies, NormTitle(vote[2].Title)) :
                   df_movies[i].elo = new[1]
            /\ Len(writes) = raised
            /\ \A m, n \in DOMAIN writes : writes[m] = writes[n] => m = n

\* the run st.rerun() starts after a vote issues no update_cell call
C4_NoRetry == pc = "voted" => store' = store /\ writes' = writes

-----------------------------------------------------------------------------
(* sample_movie_pair statement by statement (lines 64-73), called on the   *)
(* frame load_movies returned (line 81).                                   *)

MaxAttempts == 50

InitSampler ==
    /\ store \in Sheets
    /\ df_movies = load_movies(store)
    /\ pc = "loop"
    /\ attempt = 0 /\ draw = None /\ result = None
    /\ SessionUnused
    /\ EloUnused
    /\ BoardUnused

Positions(df) == {p \in (DOMAIN df) \X (DOMAIN df) : p[1] # p[2]}

\* df.sample(2) on a frame of fewer than two rows raises ValueError
DrawRaises ==
    /\ pc = "loop"
    /\ Len(df_movies) < 2
    /\ attempt' = attempt + 1
    /\ pc' = "raised"
    /\ UNCHANGED <<df_movies, draw, result, sessionVars, eloVars, boardVars>>

\* a loop iteration whose pair shares a genre: line 71 returns it
DrawAccept(p) ==
    /\ pc = "loop"
    /\ attempt < MaxAttempts
    /\ p \in Positions(df_movies)
    /\ Intersects(df_movies[p[1]], df_movies[p[2]])
    /\ attempt' = attempt + 1
    /\ draw' = p
    /\ result' = p
    /\ pc' = "returned"
    /\ UNCHANGED <<df_movies, sessionVars, eloVars, boardVars>>

\* a loop iteration whose pair shares no genre: next iteration, or the
\* loop is exhausted
DrawReject(p) ==
    /\ pc = "loop"
    /\ attempt < MaxAttempts
    /\ p \in Positions(df_movies)
    /\ ~Intersects(df_movies[p[1]], df_movies[p[2]])
    /\ attempt' = attempt + 1
    /\ draw' = p
    /\ pc' = IF attempt + 1 = MaxAttempts THEN "fallback" ELSE "loop"
    /\ UNCHANGED <<df_movies, result, sessionVars, eloVars, boardVars>>

\* line 73: one more df.sample(2), returned as it comes
Fallback(p) ==
    /\ pc = "fallback"
    /\ p \in Positions(df_movies)
    /\ attempt' = attempt + 1
    /\ result' = p
    /\ pc' = "returned"
    /\ UNCHANGED <<df_movies, draw, sessionVars, eloVars, boardVars>>

NextSampler ==
    \/ DrawRaises
    \/ \E p \in (1..(MaxRows + 1)) \X (1..(MaxRows + 1)) : DrawAccept(p)
    \/ \E p \in (1..(MaxRows + 1)) \X (1..(MaxRows + 1)) : DrawReject(p)
    \/ \E p \in (1..(MaxRows + 1)) \X (1..(MaxRows + 1)) : Fallback(p)

SpecSampler == InitSampler /\ [][NextSampler]_vars

\* the two rows at positions p share a normalized genre
Overlap(df, p) == get_genre_set(df[p[1]].genres) \cap get_genre_set(df[p[2]].genres) # {}

\* C5 as claimed: at most 50 draws, and the pair returned is the pair drawn
\* last in the loop: the first one sharing a genre, or the 50th draw when
\* none did.
C5_AtMost50DrawsReturnsLastLoopDraw ==
    Len(df_movies) >= 2 =>
        /\ attempt <= MaxAttempts
        /\ pc = "returned" => result[1] # result[2] /\ result = draw

\* what the sampler has drawn and returned so far
C5_StateReturned ==
    Len(df_movies) >= 2 =>
        /\ attempt <= MaxAttempts + 1
        /\ pc \in {"loop", "fallback"} => attempt <= MaxAttempts
        /\ pc = "fallback" => attempt = MaxAttempts
        /\ pc = "returned" =>
            /\ result[1] # result[2]
            /\ result \in Positions(df_movies)
            /\ \/ attempt <= MaxAttempts /\ result = draw /\ Overlap(df_movies, result)
               \/ attempt = MaxAttempts + 1 /\ ~Overlap(df_movies, draw)

\* a draw the loop goes past shares no genre
C5_RejectedAreDisjoint ==
    pc = "loop" /\ pc' \in {"loop", "fallback"} => ~Overlap(df_movies, draw')

\* C5 as amended: at most 51 draws; the pair returned is the first drawn pair
\* sharing a genre, or, when none of 50 draws did, a 51st draw made for the
\* purpose; its two records are distinct.
C5_AtMost51DrawsFreshFallback == [](C5_StateReturned) /\ [][C5_RejectedAreDisjoint]_vars

\* the fallback returned a pair other than the 50th draw
C5_Witness ==
    /\ pc = "returned"
    /\ attempt = MaxAttempts + 1
    /\ result # draw
    /\ Len(df_movies) = 3

\* C8: with fewer than two records no draw is attempted: the sampler is
\* not entered and an insufficient-records outcome is reported instead.
C8_NoDrawBelowTwoRecords ==
    Len(df_movies) < 2 => attempt = 0 /\ pc \in {"loop", "insufficient"}

-----------------------------------------------------------------------------
(* update_elo applied to a range of ratings (lines 114-118).               *)

WinnerSpan == 10    \* winner ratings DefaultElo .. DefaultElo + WinnerSpan
MaxGap == 800       \* loser ratings within MaxGap of the winner's

InitElo ==
    /\ elo_in \in {e \in (DefaultElo..(DefaultElo + WinnerSpan))
                         \X ((DefaultElo - MaxGap)..(DefaultElo + WinnerSpan + MaxGap)) :
                       e[1] - e[2] \in (-MaxGap)..MaxGap}
    /\ elo_out = None
    /\ pc = "elo"
    /\ store = <<>>
    /\ df_movies = <<>>
    /\ SessionUnused
    /\ SamplerUnused
    /\ BoardUnused

CallUpdateElo ==
    /\ pc = "elo"
    /\ elo_out' = update_elo(elo_in[1], elo_in[2])
    /\ pc' = "elo_done"
    /\ UNCHANGED <<df_movies, elo_in, sessionVars, samplerVars, boardVars>>

NextElo == CallUpdateElo

SpecElo == InitElo /\ [][NextElo]_vars

\* C6 as claimed: the winner's rating always rises and the loser's always falls.
C6_WinnerRisesLoserFalls ==
    pc = "elo_done" => elo_out[1] > elo_in[1] /\ elo_out[2] < elo_in[2]

\* C6 as amended: the winner's rating never falls and the loser's never
\* rises; they change exactly when the winner is rated at most 719 above the
\* loser, and from 720 on both ratings are returned unchanged.
C6_StrictUpTo719 ==
    pc = "elo_done" =>
        /\ elo_out[1] >= elo_in[1]
        /\ elo_out[2] <= elo_in[2]
        /\ elo_out[1] > elo_in[1] <=> elo_in[1] - elo_in[2] <= 719
        /\ elo_out[2] < elo_in[2] <=> elo_in[1] - elo_in[2] <= 719

\* a winner rated 720 above the loser: nothing changes
C6_Witness ==
    /\ pc = "elo_done"
    /\ elo_in[1] - elo_in[2] = 720
    /\ elo_out = elo_in

-----------------------------------------------------------------------------
(* The leaderboard (lines 152-182) and get_top_movies_by_genre (185-197).  *)

\* "Overall"
Overall == <<79, 118, 101, 114, 97, 108, 108>>

\* "Alien", "alien", "Brazil", "Clue"
T_Alien == <<65, 108, 105, 101, 110>>
T_alien == <<97, 108, 105, 101, 110>>
T_Brazil == <<66, 114, 97, 122, 105, 108>>
T_Clue == <<67, 108, 117, 101>>
\* "Action", "Drama", "Comedy", and in lower case
G_Action == <<65, 99, 116, 105, 111, 110>>
G_Drama == <<68, 114, 97, 109, 97>>
G_Comedy == <<67, 111, 109, 101, 100, 121>>
G_ActionDrama == G_Action \o <<Comma>> \o G_Drama
\* "drama,": a lower-case genre followed by an empty piece
G_dramaComma == Lower(G_Drama) \o <<Comma>>

\* A = Alien, B = Brazil, C = Clue; then a second viewing of Alien stored
\* with other genres, and one stored as "alien".
BoardSheet ==
    << [Title |-> T_Alien,  genres |-> G_ActionDrama, elo |-> Num(1500)],
       [Title |-> T_Brazil, genres |-> G_Action,      elo |-> Num(1600)],
       [Title |-> T_Clue,   genres |-> G_Comedy,      elo |-> Num(1700)],
       [Title |-> T_Alien,  genres |-> G_Comedy,      elo |-> Num(1500)],
       [Title |-> T_alien,  genres |-> G_dramaComma,  elo |-> Num(1500)] >>

\* the sheets the board is rendered for: the script reaches line 152 only
\* with a pair sampled, that is with two rows or more
BoardSheets ==
    {sh \in SubSheets(BoardSheet, MaxRows) \cup SubSheets(Reverse(BoardSheet), MaxRows) :
        Len(sh) >= 2}

\* every piece of every genres string, stripped (the empty piece included)
StrippedPieces(df) == UNION {{Strip(q) : q \in Range(Split(df[i].genres))} : i \in DOMAIN df}

\* lines 156-163: the selectbox options
genre_options(df) == {Overall} \cup (StrippedPieces(df) \ {<<>>})

\* df[df["genres"].str.contains(g, case=False, na=False)]
Masked(df, g) == SelectSeq(df, LAMBDA r : Contains(r.genres, g))

\* .groupby("Title", as_index=False).first(): the first row of each Title
Representatives(rows) ==
    {rows[i] : i \in {k \in DOMAIN rows : \A j \in 1..(k - 1) : rows[j].Title # rows[k].Title}}

\* .sort_values("elo", ascending=False): rows of equal elo in any order
SortedByElo(S) ==
    {sq \in [1..Cardinality(S) -> S] :
        /\ \A i, j \in DOMAIN sq : sq[i] = sq[j] => i = j
        /\ \A i, j \in DOMAIN sq : i < j => sq[i].elo >= sq[j].elo}

\* the leaderboard with the groups formed first and the genre looked up in
\* each group's first row
leaderboard_GroupThenFilter(df, g) ==
    SortedByElo({r \in Representatives(df) : g = Overall \/ Contains(r.genres, g)})

\* lines 167-180
leaderboard(df, g) ==
    SortedByElo(Representatives(IF g = Overall THEN df ELSE Masked(df, g)))

\* genre_df.iloc[0] of lines 188-196 for genre g
Champions(df, g) ==
    {r \in Representatives(Masked(df, g)) :
        \A q \in Representatives(Masked(df, g)) : q.elo <= r.elo}

\* the loop of lines 187-196 over the genres gs: for each one, in order,
\* (g, genre_df.iloc[0])
RECURSIVE TopOfEach(_, _)
TopOfEach(df, gs) ==
    IF gs = <<>> THEN {<<>>}
    ELSE {<< <<Head(gs), c>> >> \o rest :
             c \in Champions(df, Head(gs)), rest \in TopOfEach(df, Tail(gs))}

\* get_top_movies_by_genre: one (genre, row) per stripped piece, in sorted order
get_top_movies_by_genre(df) == TopOfEach(df, Sorted(StrippedPieces(df)))

InitBoard ==
    /\ store \in BoardSheets
    /\ df_movies = load_movies(store)
    /\ pc = "board"
    /\ selected_genre = None /\ leaderboard_df = <<>> /\ top_movies = <<>>
    /\ SessionUnused
    /\ SamplerUnused
    /\ EloUnused

\* one run of lines 152-202 with genre g selected
Render(g) ==
    /\ pc \in {"board", "rendered"}
    /\ g \in genre_options(df_movies)
    /\ selected_genre' = g
    /\ leaderboard_df' \in leaderboard(df_movies, g)
    /\ top_movies' \in get_top_movies_by_genre(df_movies)
    /\ pc' = "rendered"
    /\ UNCHANGED <<df_movies, sessionVars, samplerVars, eloVars>>

NextBoard == \E g \in genre_options(df_movies) : Render(g)

SpecBoard == InitBoard /\ [][NextBoard]_vars

\* the normalized genre tokens of the collection
NormalizedGenres(df) == UNION {get_genre_set(df[i].genres) : i \in DOMAIN df}

ExampleFrame ==
    << [Title |-> T_Alien,  genres |-> G_ActionDrama, elo |-> 1500],
       [Title |-> T_Brazil, genres |-> G_Action,      elo |-> 1600],
       [Title |-> T_Clue,   genres |-> G_Comedy,      elo |-> 1700] >>

\* C7: top_by_genre lists, in lexicographic order, exactly one entry for
\* each distinct normalized genre token (trimmed, lower-cased, non-empty),
\* whose champion has the highest rating among the records whose genre
\* string contains the token; for A, B, C of the example it gives
\* ("action", B), ("comedy", C), ("drama", A).
C7_OneChampionPerNormalizedGenre ==
    pc = "rendered" =>
        /\ [k \in DOMAIN top_movies |-> top_movies[k][1]] = Sorted(NormalizedGenres(df_movies))
        /\ \A k \in DOMAIN top_movies :
               \A i \in DOMAIN df_movies :
                   Contains(df_movies[i].genres, top_movies[k][1]) =>
                       df_movies[i].elo <= top_movies[k][2].elo
        /\ df_movies = ExampleFrame =>
               top_movies = << <<Lower(G_Action), ExampleFrame[2]>>,
                               <<Lower(G_Comedy), ExampleFrame[3]>>,
                               <<Lower(G_Drama),  ExampleFrame[1]>> >>

\* C9: the "Overall" leaderboard holds exactly one entry per distinct
\* normalized title: titles differing only in case give one entry.
C9_OneEntryPerNormalizedTitle ==
    pc = "rendered" /\ selected_genre = Overall =>
        /\ Len(leaderboard_df) = Cardinality({NormTitle(df_movies[i].Title) : i \in DOMAIN df_movies})
        /\ \A m, n \in DOMAIN leaderboard_df :
               NormTitle(leaderboard_df[m].Title) = NormTitle(leaderboard_df[n].Title) => m = n

FirstRowOf(df, title) == df[Min({i \in DOMAIN df : df[i].Title = title})]

\* C10 as claimed: under a genre filter an entity is listed only if the
\* genre string of the first row of its title in the collection contains
\* the filter.
C10_FilterLooksAtFirstRow ==
    pc = "rendered" /\ selected_genre # Overall =>
        \A k \in DOMAIN leaderboard_df :
            Contains(FirstRowOf(df_movies, leaderboard_df[k].Title).genres, selected_genre)

\* C10 as amended: under a genre filter the rows are filtered before they
\* are grouped: a title is listed exactly when some row of it contains the
\* filter, once, represented by the first such row.
C10_FilterBeforeGrouping ==
    pc = "rendered" /\ selected_genre # Overall =>
        LET hits == {i \in DOMAIN df_movies : Contains(df_movies[i].genres, selected_genre)}
        IN  /\ {leaderboard_df[k].Title : k \in DOMAIN leaderboard_df}
                   = {df_movies[i].Title : i \in hits}
            /\ Len(leaderboard_df) = Cardinality({df_movies[i].Title : i \in hits})
            /\ \A k \in DOMAIN leaderboard_df :
                   leaderboard_df[k] =
                       df_movies[Min({i \in hits : df_movies[i].Title = leaderboard_df[k].Title})]

\* "Comedy" selected, Alien's first row is Action,Drama and a later one is
\* Comedy: Alien is listed, with the later row
C10_Witness ==
    /\ pc = "rendered"
    /\ selected_genre = G_Comedy
    /\ \E i \in DOMAIN df_movies : df_movies[i].Title = T_Alien
    /\ FirstRowOf(df_movies, T_Alien).genres = G_ActionDrama
    /\ \E k \in DOMAIN leaderboard_df :
           leaderboard_df[k].Title = T_Alien /\ leaderboard_df[k].genres = G_Comedy

=============================================================================
